---- MODULE Spec2Model ----
(***************************************************************************)
(* The shape/text annotation dialog of coretk (dialogs/shapemod.py),       *)
(* ShapeDialog, as a state machine over one annotation, the canvas it is   *)
(* drawn on and the dialog's staged fields.                                *)
(*                                                                         *)
(* Canvas coordinates are kept in half pixels (Coord(n) = 2n) so that the  *)
(* true divisions of add_shape, (x0 + x1) / 2 and 1.5 * size, stay exact   *)
(* in integer arithmetic.                                                  *)
(***************************************************************************)
EXTENDS Integers, Sequences, FiniteSets, TLC

VARIABLES annotation_type, shape, canvas, dlg, snap, bbox, text_font, sessions, edits

\* the state of an invoke task of tasks.py: its arguments, the position of
\* the main thread, the Progress objects and spinner threads it has made,
\* the shared cycle of spinner characters, the exception that ended it,
\* the steps it has entered and whether tasks.py was there after the pull
VARIABLES task_in, pc, progs, threads, cycles, error, log, tasks_py

dialog_vars == <<annotation_type, shape, canvas, dlg, snap, bbox, text_font, sessions, edits>>

task_vars == <<task_in, pc, progs, threads, cycles, error, log, tasks_py>>

vars == <<dialog_vars, task_vars>>

----------------------------------------------------------------------------
(* Bounds of the model *)

\* dialogs opened on the annotation in one behaviour
MaxSessions == 3
\* staging events (field edits, colour prompts) in one behaviour
MaxEdits == 2

----------------------------------------------------------------------------
(* Values *)

\* Python None where a colour (a string) is expected
None == "None"
\* Python None where a canvas id is expected; Tk ids start at 1
NoneId == 0

FONT_SIZES == <<8, 9, 10, 11, 12, 14, 16, 18, 20, 22, 24, 26, 28, 36, 48, 72>>
BORDER_WIDTH == <<0, 1, 2, 3, 4, 5, 6, 7, 8, 9, 10>>

Range(s) == {s[i] : i \in DOMAIN s}

\* the values the form's widgets offer in the main specification
Texts == {"", "label"}
Families == {"Arial", "Courier"}
Sizes == {v \in Range(FONT_SIZES) : v \in {9, 10, 12}}
Widths == {v \in Range(BORDER_WIDTH) : v \in {1, 3}}
Colors == {"#000000", "#ff0000"}
Flags == {0, 1}
\* results of canvas.bbox(id), in pixels: <<x0, y0, x1, y1>>
Boxes == {<<10, 20, 50, 60>>, <<11, 21, 50, 60>>}
\* origins (x0, y0) a text annotation is placed at, in pixels
Points == {<<10, 20>>, <<7, 5>>}

\* a pixel coordinate in the half-pixel unit of the canvas model
Coord(n) == 2 * n

\* int(v) applied to what IntVar.get() returns, which is an int already
int(v) == v

----------------------------------------------------------------------------
(* ShapeDialog.is_shape / is_text *)

is_shape == annotation_type = "OVAL" \/ annotation_type = "RECTANGLE"

is_text == annotation_type = "TEXT"

----------------------------------------------------------------------------
(* The Tk canvas: tkinter drops every option whose value is None before    *)
(* the call reaches Tk, so such an option keeps its old (or default) value *)

Given(v, old) == IF v = None THEN old ELSE v

\* canvas.itemconfig(id, fill=, dash=, outline=, width=) on the shape element
itemconfig_shape(items, id, fill, dash, outline, width) ==
    [items EXCEPT ![id] =
        [type |-> items[id].type,
         fill |-> Given(fill, items[id].fill),
         dash |-> dash,
         outline |-> Given(outline, items[id].outline),
         width |-> width,
         tags |-> items[id].tags]]

\* canvas.itemconfig(text_id, text=, fill=, font=) on the label element
itemconfig_text(items, id, text, fill, font) ==
    [items EXCEPT ![id] =
        [type |-> "text",
         x |-> items[id].x,
         y |-> items[id].y,
         text |-> text,
         fill |-> Given(fill, items[id].fill),
         font |-> font,
         tags |-> items[id].tags]]

\* the element canvas.create_text(x, y, text=, fill=, font=, tags=) draws;
\* Tk's default fill of a text item is black
new_text(x, y, text, fill, font, tags) ==
    [type |-> "text", x |-> x, y |-> y, text |-> text,
     fill |-> Given(fill, "black"), font |-> font, tags |-> tags]

\* items with one more element under id
with_item(items, id, item) ==
    [i \in DOMAIN items \cup {id} |-> IF i = id THEN item ELSE items[i]]

\* canvas.delete(id)
delete(items, id) == [i \in DOMAIN items \ {id} |-> items[i]]

\* dict.pop(id)
pop(registry, id) == [i \in DOMAIN registry \ {id} |-> registry[i]]

----------------------------------------------------------------------------
(* ShapeDialog.make_font *)

\* make_font testing the italic flag before the bold flag
make_font_italic_first(d) ==
    LET size == int(d.font_size)
        f0 == <<d.font, size>>
        f1 == IF d.italic = 1 THEN Append(f0, "italic") ELSE f0
        f2 == IF d.bold = 1 THEN Append(f1, "bold") ELSE f1
        f3 == IF d.underline = 1 THEN Append(f2, "underline") ELSE f2
    IN  f3

make_font(d) ==
    LET size == int(d.font_size)
        f0 == <<d.font, size>>
        f1 == IF d.bold = 1 THEN Append(f0, "bold") ELSE f0
        f2 == IF d.italic = 1 THEN Append(f1, "italic") ELSE f1
        f3 == IF d.underline = 1 THEN Append(f2, "underline") ELSE f2
    IN  f3

----------------------------------------------------------------------------
(* ShapeDialog.save_text / save_shape: the staged fields into shape_data *)

\* save_text forgetting the text colour
save_text_no_color(data, d) ==
    [data EXCEPT !.text = d.shape_text,
                 !.font = d.font,
                 !.font_size = int(d.font_size),
                 !.bold = d.bold,
                 !.italic = d.italic,
                 !.underline = d.underline]

save_text(data, d) ==
    [data EXCEPT !.text = d.shape_text,
                 !.font = d.font,
                 !.font_size = int(d.font_size),
                 !.text_color = d.text_color,
                 !.bold = d.bold,
                 !.italic = d.italic,
                 !.underline = d.underline]

\* save_shape forgetting the border colour
save_shape_no_border_color(data, d) ==
    [data EXCEPT !.fill_color = d.fill_color,
                 !.border_width = int(d.border_width)]

save_shape(data, d) ==
    [data EXCEPT !.fill_color = d.fill_color,
                 !.border_color = d.border_color,
                 !.border_width = int(d.border_width)]

----------------------------------------------------------------------------
(* State after the caller has built the annotation, before any dialog *)

\* the style record a new annotation carries
NewData ==
    [text |-> "", font |-> "Arial", font_size |-> 12, text_color |-> "#000000",
     fill_color |-> "", border_color |-> "#000000", border_width |-> 1,
     bold |-> 0, italic |-> 0, underline |-> 0]

\* the dashed placeholder the canvas draws while a shape is dragged out
Placeholder(type) ==
    [type |-> type, fill |-> "", dash |-> "-", outline |-> "#000000",
     width |-> 1, tags |-> "shape"]

\* a dialog object that has not been constructed yet
NoDialog ==
    [state |-> "none", clicked |-> "", pc |-> 0, id |-> NoneId,
     shape_text |-> "", font |-> "", font_size |-> 0,
     text_color |-> None, fill_color |-> None, border_color |-> None,
     border_width |-> 0, bold |-> 0, italic |-> 0, underline |-> 0,
     fill |-> [text |-> None, background |-> None],
     border |-> [text |-> None, background |-> None]]

\* no task of tasks.py has been invoked
NoTask ==
    /\ task_in = [task |-> "none", verbose |-> FALSE, local |-> FALSE,
                  dry |-> FALSE, ospf |-> FALSE, service |-> FALSE]
    /\ pc = [i |-> 0, at |-> "done"]
    /\ progs = << >>
    /\ threads = << >>
    /\ cycles = 1
    /\ error = ""
    /\ log = << >>
    /\ tasks_py = "unknown"

Init ==
    /\ annotation_type \in {"OVAL", "RECTANGLE", "TEXT"}
    /\ \E p \in Points :
         shape = [id |-> IF is_shape THEN 1 ELSE NoneId,
                  x0 |-> p[1], y0 |-> p[2],
                  text_id |-> NoneId, created |-> FALSE,
                  shape_data |-> NewData]
    /\ canvas = IF is_shape
                THEN [items |-> (1 :> Placeholder(annotation_type)),
                      shapes |-> (1 :> "shape"),
                      texts |-> << >>,
                      next |-> 2]
                ELSE [items |-> << >>, shapes |-> << >>, texts |-> << >>,
                      next |-> 1]
    /\ dlg = NoDialog
    /\ snap = [shape |-> shape, canvas |-> canvas]
    /\ bbox = <<0, 0, 0, 0>>
    /\ text_font = << >>
    /\ sessions = 0
    /\ edits = 0
    /\ NoTask

----------------------------------------------------------------------------
(* ShapeDialog.__init__ and draw: the staged copy of shape_data.  clicked  *)
(* records which button's handler ran, pc how many statements of click_add *)
(* the statement-wise specification has run, and snap the annotation and   *)
(* the canvas as they were when the dialog was constructed.                *)

ShapeDialog ==
    /\ dlg.state # "open"
    /\ sessions < MaxSessions
    /\ is_shape => shape.id \in DOMAIN canvas.shapes
    /\ LET data == shape.shape_data IN
       dlg' = [state |-> "open", clicked |-> "", pc |-> 0,
               id |-> IF is_shape THEN shape.id ELSE NoneId,
               shape_text |-> data.text,
               font |-> data.font,
               font_size |-> data.font_size,
               text_color |-> data.text_color,
               fill_color |-> data.fill_color,
               border_color |-> data.border_color,
               border_width |-> data.border_width,
               bold |-> data.bold,
               italic |-> data.italic,
               underline |-> data.underline,
               fill |-> IF is_shape
                        THEN [text |-> Given(data.fill_color, ""),
                              background |-> Given(data.fill_color, "")]
                        ELSE [text |-> None, background |-> None],
               border |-> IF is_shape
                          THEN [text |-> Given(data.border_color, ""),
                                background |-> Given(data.fill_color, "")]
                          ELSE [text |-> None, background |-> None]]
    /\ snap' = [shape |-> shape, canvas |-> canvas]
    /\ sessions' = sessions + 1
    /\ UNCHANGED <<annotation_type, shape, canvas, bbox, text_font, edits, task_vars>>

----------------------------------------------------------------------------
(* Staging events: the widgets draw() binds to the dialog's Tk variables *)

\* what every staging event leaves alone
Staged ==
    /\ dlg.state = "open"
    /\ edits < MaxEdits
    /\ edits' = edits + 1
    /\ UNCHANGED <<annotation_type, shape, canvas, snap, bbox, text_font, sessions, task_vars>>

\* the Entry bound to shape_text
EditText(v) == Staged /\ dlg' = [dlg EXCEPT !.shape_text = v]

\* the read-only Combobox bound to font
SelectFont(v) == Staged /\ dlg' = [dlg EXCEPT !.font = v]

\* the read-only Combobox bound to font_size
SelectFontSize(v) == Staged /\ dlg' = [dlg EXCEPT !.font_size = v]

\* the Checkbuttons bound to bold, italic and underline
ToggleBold == Staged /\ dlg' = [dlg EXCEPT !.bold = 1 - @]

ToggleItalic == Staged /\ dlg' = [dlg EXCEPT !.italic = 1 - @]

ToggleUnderline == Staged /\ dlg' = [dlg EXCEPT !.underline = 1 - @]

\* the read-only Combobox bound to border_width, drawn for shapes only
SelectBorderWidth(v) ==
    Staged /\ is_shape /\ dlg' = [dlg EXCEPT !.border_width = v]

\* color is color[1] of colorchooser.askcolor: a colour, or None when the
\* prompt is cancelled
\* choose_text_color writing through to the annotation's shape_data
choose_text_color_through(color) ==
    /\ dlg.state = "open"
    /\ edits < MaxEdits
    /\ edits' = edits + 1
    /\ dlg' = [dlg EXCEPT !.text_color = color]
    /\ shape' = [shape EXCEPT !.shape_data.text_color = color]
    /\ UNCHANGED <<annotation_type, canvas, snap, bbox, text_font, sessions, task_vars>>

choose_text_color(color) ==
    Staged /\ dlg' = [dlg EXCEPT !.text_color = color]

choose_fill_color(color) ==
    /\ Staged
    /\ is_shape
    /\ dlg' = [dlg EXCEPT !.fill_color = color,
                          !.fill = [text |-> Given(color, @.text),
                                    background |-> Given(color, @.background)]]

choose_border_color(color) ==
    /\ Staged
    /\ is_shape
    /\ dlg' = [dlg EXCEPT !.border_color = color,
                          !.border = [text |-> Given(color, @.text),
                                      background |-> Given(color, @.background)]]

----------------------------------------------------------------------------
(* ShapeDialog.destroy, cancel, add_text, add_shape, click_add             *)
(* The handlers work on s, the record of what they read and write.         *)

Cur == [shape |-> shape, canvas |-> canvas, dlg |-> dlg,
        bbox |-> bbox, text_font |-> text_font]

Becomes(s) ==
    /\ shape' = s.shape
    /\ canvas' = s.canvas
    /\ dlg' = s.dlg
    /\ bbox' = s.bbox
    /\ text_font' = s.text_font

destroy(s) == [s EXCEPT !.dlg.state = "destroyed"]

\* a created flag that is never seen set
created_never(s, id) == FALSE

\* canvas.shapes[id] is the one annotation of the model
created_of(s, id) == s.shape.created

\* cancel forgetting the annotation but leaving its element on the canvas
cancel_keeps_element(s) ==
    IF is_shape /\ ~created_of(s, s.dlg.id)
    THEN destroy([s EXCEPT !.canvas.shapes = pop(@, s.dlg.id)])
    ELSE destroy(s)

\* cancel saving the staged text fields before it closes
cancel_saves_text(s) ==
    IF is_shape /\ ~created_of(s, s.dlg.id)
    THEN destroy([s EXCEPT !.canvas.items = delete(@, s.dlg.id),
                           !.canvas.shapes = pop(@, s.dlg.id)])
    ELSE destroy([s EXCEPT !.shape.shape_data = save_text(@, s.dlg)])

cancel_body(s) ==
    IF is_shape /\ ~created_of(s, s.dlg.id)
    THEN destroy([s EXCEPT !.canvas.items = delete(@, s.dlg.id),
                           !.canvas.shapes = pop(@, s.dlg.id)])
    ELSE destroy(s)

cancel ==
    /\ dlg.state = "open"
    /\ Becomes(cancel_body([Cur EXCEPT !.dlg.clicked = "cancel"]))
    /\ UNCHANGED <<annotation_type, snap, sessions, edits, task_vars>>

\* add_text with the else branch the source has commented out
add_text_reconfigures(s) ==
    LET d == s.dlg
        font == make_font(d)
        tid == s.canvas.next
        s1 == IF s.shape.text_id = NoneId
              THEN [s EXCEPT
                      !.canvas.items =
                          with_item(@, tid,
                                    new_text(Coord(s.shape.x0), Coord(s.shape.y0),
                                             d.shape_text, d.text_color, font, "text")),
                      !.canvas.next = @ + 1,
                      !.shape.text_id = tid,
                      !.dlg.id = tid,
                      !.shape.id = tid,
                      !.canvas.texts = with_item(@, tid, "shape"),
                      !.shape.created = TRUE]
              ELSE [s EXCEPT
                      !.canvas.items =
                          itemconfig_text(@, s.shape.text_id, d.shape_text,
                                          d.text_color, font)]
    IN  [s1 EXCEPT !.shape.shape_data = save_text(@, d),
                   !.text_font = font]

\* add_text forgetting to give the annotation the new element's id
add_text_keeps_id(s) ==
    LET d == s.dlg
        font == make_font(d)
        tid == s.canvas.next
        s1 == IF s.shape.text_id = NoneId
              THEN [s EXCEPT
                      !.canvas.items =
                          with_item(@, tid,
                                    new_text(Coord(s.shape.x0), Coord(s.shape.y0),
                                             d.shape_text, d.text_color, font, "text")),
                      !.canvas.next = @ + 1,
                      !.shape.text_id = tid,
                      !.dlg.id = tid,
                      !.canvas.texts = with_item(@, tid, "shape"),
                      !.shape.created = TRUE]
              ELSE s
    IN  [s1 EXCEPT !.shape.shape_data = save_text(@, d),
                   !.text_font = font]

add_text(s) ==
    LET d == s.dlg
        text == d.shape_text
        x == Coord(s.shape.x0)
        y == Coord(s.shape.y0)
        font == make_font(d)
        tid == s.canvas.next
        s1 == IF s.shape.text_id = NoneId
              THEN [s EXCEPT
                      !.canvas.items =
                          with_item(@, tid,
                                    new_text(x, y, text, d.text_color, font, "text")),
                      !.canvas.next = @ + 1,
                      !.shape.text_id = tid,
                      !.dlg.id = tid,
                      !.shape.id = tid,
                      !.canvas.texts = with_item(@, tid, "shape"),
                      !.shape.created = TRUE]
              ELSE s
    IN  [s1 EXCEPT !.shape.shape_data = save_text(@, d),
                   !.text_font = font]

\* the anchor with Python 2's integer division
anchor_x_floor(x0, x1) == Coord((x0 + x1) \div 2)

\* _x = (x0 + x1) / 2, in half pixels
anchor_x(x0, x1) == x0 + x1

\* _y = y0 + 1.5 * size, in half pixels
anchor_y(y0, size) == Coord(y0) + 3 * size

add_shape(s, box) ==
    LET d == s.dlg
        items1 == itemconfig_shape(s.canvas.items, d.id, d.fill_color, "",
                                   d.border_color, int(d.border_width))
        shape_text == d.shape_text
        size == int(d.font_size)
        x0 == box[1]
        y0 == box[2]
        x1 == box[3]
        _y == anchor_y(y0, size)
        _x == anchor_x(x0, x1)
        font == make_font(d)
        tid == s.canvas.next
        s1 == IF s.shape.text_id = NoneId
              THEN [s EXCEPT
                      !.canvas.items =
                          with_item(items1, tid,
                                    new_text(_x, _y, shape_text, d.text_color,
                                             font, "shapetext")),
                      !.canvas.next = @ + 1,
                      !.shape.text_id = tid,
                      !.shape.created = TRUE]
              ELSE [s EXCEPT
                      !.canvas.items =
                          itemconfig_text(items1, s.shape.text_id, shape_text,
                                          d.text_color, font)]
    IN  [s1 EXCEPT !.shape.shape_data = save_shape(save_text(@, d), d),
                   !.bbox = box,
                   !.text_font = font]

click_add ==
    /\ dlg.state = "open"
    /\ \E box \in IF is_shape THEN Boxes ELSE {bbox} :
         LET s == [Cur EXCEPT !.dlg.clicked = "add"] IN
         Becomes(destroy(IF is_shape THEN add_shape(s, box)
                         ELSE IF is_text THEN add_text(s)
                         ELSE s))
    /\ UNCHANGED <<annotation_type, snap, sessions, edits, task_vars>>

----------------------------------------------------------------------------

Next ==
    \/ ShapeDialog
    \/ \E v \in Texts : EditText(v)
    \/ \E v \in Families : SelectFont(v)
    \/ \E v \in Sizes : SelectFontSize(v)
    \/ ToggleBold
    \/ ToggleItalic
    \/ ToggleUnderline
    \/ \E v \in Widths : SelectBorderWidth(v)
    \/ \E color \in Colors \cup {None} : choose_text_color(color)
    \/ \E color \in Colors \cup {None} : choose_fill_color(color)
    \/ \E color \in Colors \cup {None} : choose_border_color(color)
    \/ cancel
    \/ click_add

Spec == Init /\ [][Next]_vars

----------------------------------------------------------------------------
(* click_add statement by statement: the add_shape / add_text call, then   *)
(* self.destroy().  Tk runs one handler at a time, so no other event is    *)
(* handled between the two statements.                                     *)

\* click_add destroying the dialog before it adds
click_add_destroy_first == <<"destroy", "add">>

\* the statements of click_add, in the order it runs them
click_add_order == <<"add", "destroy">>

click_add_stmt(name, s, box) ==
    IF name = "add"
    THEN IF is_shape THEN add_shape(s, box)
         ELSE IF is_text THEN add_text(s)
         ELSE s
    ELSE destroy(s)

click_add_first ==
    /\ dlg.state = "open"
    /\ dlg.pc = 0
    /\ \E box \in IF is_shape THEN Boxes ELSE {bbox} :
         LET s == [Cur EXCEPT !.dlg.clicked = "add", !.dlg.pc = 1] IN
         Becomes(click_add_stmt(click_add_order[1], s, box))
    /\ UNCHANGED <<annotation_type, snap, sessions, edits, task_vars>>

click_add_second ==
    /\ dlg.clicked = "add"
    /\ dlg.pc = 1
    /\ \E box \in IF is_shape THEN Boxes ELSE {bbox} :
         LET s == [Cur EXCEPT !.dlg.pc = 2] IN
         Becomes(click_add_stmt(click_add_order[2], s, box))
    /\ UNCHANGED <<annotation_type, snap, sessions, edits, task_vars>>

\* no handler is in the middle of its statements
Idle == dlg.pc # 1

NextSteps ==
    \/ Idle /\ ShapeDialog
    \/ Idle /\ \E v \in Texts : EditText(v)
    \/ Idle /\ \E v \in Families : SelectFont(v)
    \/ Idle /\ \E v \in Sizes : SelectFontSize(v)
    \/ Idle /\ ToggleBold
    \/ Idle /\ ToggleItalic
    \/ Idle /\ ToggleUnderline
    \/ Idle /\ \E v \in Widths : SelectBorderWidth(v)
    \/ Idle /\ \E color \in Colors \cup {None} : choose_text_color(color)
    \/ Idle /\ \E color \in Colors \cup {None} : choose_fill_color(color)
    \/ Idle /\ \E color \in Colors \cup {None} : choose_border_color(color)
    \/ Idle /\ cancel
    \/ click_add_first
    \/ click_add_second

SpecSteps == Init /\ [][NextSteps]_vars

----------------------------------------------------------------------------
(* make_font on its own: an open text dialog whose font controls hold any  *)
(* family, any size of FONT_SIZES and any flags, and one call of make_font *)

InitFont ==
    /\ annotation_type = "TEXT"
    /\ shape = [id |-> NoneId, x0 |-> 10, y0 |-> 20, text_id |-> NoneId,
                created |-> FALSE, shape_data |-> NewData]
    /\ canvas = [items |-> << >>, shapes |-> << >>, texts |-> << >>, next |-> 1]
    /\ \E family \in Families, size \in Range(FONT_SIZES),
          b \in Flags, i \in Flags, u \in Flags :
         dlg = [NoDialog EXCEPT !.state = "open", !.font = family,
                                !.font_size = size, !.text_color = "#000000",
                                !.bold = b, !.italic = i, !.underline = u]
    /\ snap = [shape |-> shape, canvas |-> canvas]
    /\ bbox = <<0, 0, 0, 0>>
    /\ text_font = << >>
    /\ sessions = 1
    /\ edits = 0
    /\ NoTask

CallMakeFont ==
    /\ text_font = << >>
    /\ text_font' = make_font(dlg)
    /\ UNCHANGED <<annotation_type, shape, canvas, dlg, snap, bbox, sessions, edits, task_vars>>

NextFont == CallMakeFont

SpecFont == InitFont /\ [][NextFont]_vars

----------------------------------------------------------------------------
(* tasks.py: the install, uninstall and reinstall tasks as the sequence of *)
(* steps their main thread runs, and the spinner threads of Progress.      *)

\* Python None where a spinner thread is expected; threads are numbered
\* from 1 in the order Progress.start makes them
NoThread == 0

\* Progress.__init__
Progress(verbose) == [verbose |-> verbose, thread |-> NoThread, running |-> FALSE]

\* the steps of a task: p = Progress(verbose), a statement outside any
\* with block that can raise, a with p.start(msg) block, and the return
step_progress(fn, line) == [fn |-> fn, kind |-> "progress", line |-> line, msg |-> ""]

step_run(fn, line, msg) == [fn |-> fn, kind |-> "run", line |-> line, msg |-> msg]

step_block(fn, line, msg) == [fn |-> fn, kind |-> "block", line |-> line, msg |-> msg]

step_return(fn, line) == [fn |-> fn, kind |-> "return", line |-> line, msg |-> ""]

uninstall_steps(in) ==
    <<step_progress("uninstall", 531),
      step_run("uninstall", 532, "sudo -v"),
      step_block("uninstall", 533, "uninstalling core"),
      step_block("uninstall", 535, "cleaning build directory"),
      step_block("uninstall", 538, "uninstalling core"),
      step_block("uninstall", 550, "uninstalling examples")>>
    \o (IF ~in.local
        THEN <<step_run("uninstall", 556, "sudo rm -f core-python")>>
        ELSE << >>)
    \o (IF in.service
        THEN <<step_block("uninstall", 562, "uninstalling service")>>
        ELSE << >>)
    \o <<step_return("uninstall", 564)>>

\* the part of reinstall between its two calls
pull_steps ==
    <<step_progress("reinstall", 592),
      step_block("reinstall", 593, "pulling latest code")>>

install_steps(in) ==
    <<step_run("install", 422, "sudo -v"),
      step_progress("install", 423),
      step_run("install", 425, "get_os")>>
    \o (IF ~in.dry
        THEN <<step_block("install", 427, "checking for old installations")>>
        ELSE << >>)
    \o <<step_block("install", 429, "installing system dependencies"),
         step_block("install", 431, "installing system grpcio-tools"),
         step_block("install", 433, "building core"),
         step_block("install", 435, "installing vnoded/vcmd"),
         step_block("install", 437, "installing core"),
         step_block("install", 439, "installing scripts, examples, and configuration"),
         step_block("install", 441, "installing systemd service"),
         step_block("install", 443, "creating core gui launcher")>>
    \o (IF in.ospf
        THEN <<step_block("install", 446, "installing ospf mdr")>>
        ELSE << >>)
    \o <<step_return("install", 448)>>

\* reinstall pulling before it uninstalls
reinstall_pull_first == <<"pull", "uninstall", "install">>

\* the statements of reinstall, in the order it runs them
reinstall_order == <<"uninstall", "pull", "install">>

steps_of(name, in) ==
    CASE name = "uninstall" -> uninstall_steps(in)
      [] name = "pull" -> pull_steps
      [] name = "install" -> install_steps(in)

reinstall_steps(in) ==
    steps_of(reinstall_order[1], in) \o steps_of(reinstall_order[2], in)
    \o steps_of(reinstall_order[3], in) \o <<step_return("reinstall", 602)>>

\* the steps of the invoked task
Program ==
    CASE task_in.task = "install" -> install_steps(task_in)
      [] task_in.task = "uninstall" -> uninstall_steps(task_in)
      [] task_in.task = "reinstall" -> reinstall_steps(task_in)
      [] OTHER -> << >>

\* how the body of a with block ends: "ok" or the exception it raises.
\* cmd_ok: every c.run of the body exits 0 (one that does not raises
\* UnexpectedExit unless run with warn=True); trips: the check the body
\* makes finds what it looks for (tasks.py missing, an old installation,
\* no sch_netem module)
body_outcome(item, in, cmd_ok, trips) ==
    CASE item.line = 593 ->
             IF ~cmd_ok THEN "UnexpectedExit"
             ELSE IF trips THEN "FileNotFoundError"
             ELSE "ok"
      [] item.line = 427 -> IF trips THEN "SystemError" ELSE "ok"
      [] item.line = 429 ->
             IF ~cmd_ok THEN "UnexpectedExit"
             ELSE IF trips THEN "SystemExit"
             ELSE "ok"
      [] item.line = 441 ->
             IF in.local THEN "TypeError"
             ELSE IF cmd_ok THEN "ok"
             ELSE "UnexpectedExit"
      [] OTHER -> IF cmd_ok THEN "ok" ELSE "UnexpectedExit"

\* a task of tasks.py is invoked: no dialog takes part
InitTasks ==
    /\ annotation_type = "TEXT"
    /\ shape = [id |-> NoneId, x0 |-> 10, y0 |-> 20, text_id |-> NoneId,
                created |-> FALSE, shape_data |-> NewData]
    /\ canvas = [items |-> << >>, shapes |-> << >>, texts |-> << >>, next |-> 1]
    /\ dlg = NoDialog
    /\ snap = [shape |-> shape, canvas |-> canvas]
    /\ bbox = <<0, 0, 0, 0>>
    /\ text_font = << >>
    /\ sessions = 0
    /\ edits = 0
    /\ \E task \in {"install", "uninstall", "reinstall"},
          verbose \in BOOLEAN, local \in BOOLEAN, dry \in BOOLEAN,
          ospf \in BOOLEAN, service \in BOOLEAN :
         /\ task = "reinstall" => ospf
         /\ task = "uninstall" => ~ospf /\ ~dry
         /\ task = "install" => ~service
         /\ task_in = [task |-> task, verbose |-> verbose, local |-> local,
                       dry |-> dry, ospf |-> ospf, service |-> service]
    /\ pc = [i |-> 1, at |-> "enter"]
    /\ progs = << >>
    /\ threads = << >>
    /\ cycles = 1
    /\ error = ""
    /\ log = << >>
    /\ tasks_py = "unknown"

\* the step the main thread is at, and the Progress object p names
Item == Program[pc.i]

p == Len(progs)

\* the position after the step at pc.i
advance ==
    IF pc.i + 1 > Len(Program)
    THEN [i |-> pc.i + 1, at |-> "done"]
    ELSE [i |-> pc.i + 1, at |-> "enter"]

AtStep(kind) == pc.at = "enter" /\ pc.i \in DOMAIN Program /\ Item.kind = kind

\* p = Progress(verbose)
new_progress ==
    /\ AtStep("progress")
    /\ progs' = Append(progs, Progress(task_in.verbose))
    /\ log' = Append(log, Item)
    /\ pc' = advance
    /\ UNCHANGED <<dialog_vars, task_in, threads, cycles, error, tasks_py>>

\* a statement outside the with blocks: c.run(...), get_os(...)
run_statement ==
    /\ AtStep("run")
    /\ log' = Append(log, Item)
    /\ \E cmd_ok \in BOOLEAN :
         IF cmd_ok
         THEN pc' = advance /\ error' = error
         ELSE /\ pc' = [pc EXCEPT !.at = "raised"]
              /\ error' = IF Item.msg = "get_os" THEN "SystemExit" ELSE "UnexpectedExit"
    /\ UNCHANGED <<dialog_vars, task_in, progs, threads, cycles, tasks_py>>

\* Progress.start up to its yield
start ==
    /\ AtStep("block")
    /\ log' = Append(log, Item)
    /\ pc' = [pc EXCEPT !.at = "body"]
    /\ IF ~progs[p].verbose
       THEN /\ progs' = [progs EXCEPT ![p].running = TRUE,
                                      ![p].thread = Len(threads) + 1]
            /\ threads' = Append(threads, [prog |-> p, alive |-> TRUE])
       ELSE UNCHANGED <<progs, threads>>
    /\ UNCHANGED <<dialog_vars, task_in, cycles, error, tasks_py>>

\* the body of the with block; an exception leaves Progress.start at its
\* yield, so stop() is not called
body ==
    /\ pc.at = "body"
    /\ \E cmd_ok \in BOOLEAN, trips \in BOOLEAN :
         LET outcome == body_outcome(Item, task_in, cmd_ok, trips) IN
         /\ IF outcome = "ok"
            THEN pc' = [pc EXCEPT !.at = "stop"] /\ error' = error
            ELSE pc' = [pc EXCEPT !.at = "raised"] /\ error' = outcome
         /\ tasks_py' = IF Item.line = 593 /\ cmd_ok
                        THEN (IF trips THEN "missing" ELSE "exists")
                        ELSE tasks_py
    /\ UNCHANGED <<dialog_vars, task_in, progs, threads, cycles, log>>

\* Progress.stop up to thread.join()
stop ==
    /\ pc.at = "stop"
    /\ IF progs[p].thread # NoThread
       THEN /\ progs' = [progs EXCEPT ![p].running = FALSE]
            /\ pc' = [pc EXCEPT !.at = "join"]
       ELSE /\ progs' = progs
            /\ pc' = advance
    /\ UNCHANGED <<dialog_vars, task_in, threads, cycles, error, log, tasks_py>>

\* stop going on without waiting for the spinner thread
join_without_waiting ==
    /\ pc.at = "join"
    /\ progs' = [progs EXCEPT ![p].thread = NoThread]
    /\ pc' = advance
    /\ UNCHANGED <<dialog_vars, task_in, threads, cycles, error, log, tasks_py>>

\* thread.join() returns once the spinner thread has ended; thread = None
join ==
    /\ pc.at = "join"
    /\ ~threads[progs[p].thread].alive
    /\ progs' = [progs EXCEPT ![p].thread = NoThread]
    /\ pc' = advance
    /\ UNCHANGED <<dialog_vars, task_in, threads, cycles, error, log, tasks_py>>

\* the function returns
return ==
    /\ AtStep("return")
    /\ log' = Append(log, Item)
    /\ pc' = advance
    /\ UNCHANGED <<dialog_vars, task_in, progs, threads, cycles, error, tasks_py>>

\* the main thread has ended, by return or by exception: the interpreter
\* exits and takes the daemon threads with it
exit ==
    /\ pc.at \in {"done", "raised"}
    /\ pc' = [pc EXCEPT !.at = "exited"]
    /\ threads' = [t \in DOMAIN threads |-> [threads[t] EXCEPT !.alive = FALSE]]
    /\ UNCHANGED <<dialog_vars, task_in, progs, cycles, error, log, tasks_py>>

\* Progress.run, one test of self.running by spinner thread t: another
\* character of cycles is written, or the loop and the thread end
run(t) ==
    /\ threads[t].alive
    /\ IF progs[threads[t].prog].running
       THEN /\ cycles' = (cycles % 4) + 1
            /\ threads' = threads
       ELSE /\ threads' = [threads EXCEPT ![t].alive = FALSE]
            /\ cycles' = cycles
    /\ UNCHANGED <<dialog_vars, task_in, pc, progs, error, log, tasks_py>>

MainThread ==
    \/ new_progress
    \/ run_statement
    \/ start
    \/ body
    \/ stop
    \/ join
    \/ return
    \/ exit

Spinner == \E t \in DOMAIN threads : run(t)

NextTasks == MainThread \/ Spinner

SpecTasks == InitTasks /\ [][NextTasks]_vars

\* the interpreter keeps switching between the main thread and the spinner
\* thread, and every c.run comes back
SpecTasksFair == SpecTasks /\ WF_vars(MainThread) /\ WF_vars(Spinner)

----------------------------------------------------------------------------
(* Properties *)

Cancelled == dlg.state = "destroyed" /\ dlg.clicked = "cancel"

Added == dlg.state = "destroyed" /\ dlg.clicked = "add"

\* the staged fields differ from the shape_data the dialog was opened on
StagedDiffers ==
    \/ dlg.shape_text # snap.shape.shape_data.text
    \/ dlg.font # snap.shape.shape_data.font
    \/ dlg.font_size # snap.shape.shape_data.font_size
    \/ dlg.text_color # snap.shape.shape_data.text_color
    \/ dlg.bold # snap.shape.shape_data.bold

\* C1: until click_add has run, whatever staging events happen (any field
\* edit, any colour prompt with any result), shape_data is what it was when
\* the dialog was constructed.
C1_StagingLeavesShapeData ==
    dlg.clicked # "add" => shape.shape_data = snap.shape.shape_data

C1_Witness ==
    /\ dlg.state = "open"
    /\ edits = MaxEdits
    /\ dlg.text_color = None
    /\ dlg.shape_text # shape.shape_data.text

\* C2: cancelling a shape dialog whose annotation was not created deletes
\* the shape's element and forgets the annotation: nothing of it is left in
\* canvas.shapes or on the canvas.
C2_CancelRemovesUncreated ==
    (Cancelled /\ is_shape /\ ~snap.shape.created) =>
        /\ snap.shape.id \notin DOMAIN canvas.shapes
        /\ snap.shape.id \notin DOMAIN canvas.items
        /\ shape.text_id \notin DOMAIN canvas.items
        /\ DOMAIN canvas.items = {}
        /\ DOMAIN canvas.shapes = {}

C2_Witness ==
    /\ Cancelled /\ is_shape /\ ~snap.shape.created
    /\ snap.shape.id \in DOMAIN snap.canvas.items
    /\ snap.shape.id \in DOMAIN snap.canvas.shapes

\* C3: cancelling a shape dialog whose annotation was created leaves
\* canvas.shapes, the shape element, the label element and shape_data as
\* they were when the dialog was opened, whatever was staged.
C3_CancelKeepsCreated ==
    (Cancelled /\ is_shape /\ snap.shape.created) =>
        /\ canvas.shapes = snap.canvas.shapes
        /\ canvas.items = snap.canvas.items
        /\ shape = snap.shape

C3_Witness ==
    /\ Cancelled /\ is_shape /\ snap.shape.created
    /\ StagedDiffers
    /\ shape.text_id \in DOMAIN canvas.items

\* C4: after click_add on a shape dialog the annotation is created and the
\* nine shape_data fields equal the values staged at the click.
C4_ShapeCommitPersists ==
    (Added /\ is_shape) =>
        /\ shape.created = TRUE
        /\ shape.shape_data.text = dlg.shape_text
        /\ shape.shape_data.font = dlg.font
        /\ shape.shape_data.font_size = dlg.font_size
        /\ shape.shape_data.bold = dlg.bold
        /\ shape.shape_data.italic = dlg.italic
        /\ shape.shape_data.underline = dlg.underline
        /\ shape.shape_data.fill_color = dlg.fill_color
        /\ shape.shape_data.border_color = dlg.border_color
        /\ shape.shape_data.border_width = dlg.border_width

C4_Witness ==
    /\ Added /\ is_shape
    /\ snap.shape.created
    /\ snap.shape.text_id # NoneId
    /\ dlg.border_color # snap.shape.shape_data.border_color
    /\ dlg.border_width # snap.shape.shape_data.border_width

\* C5: click_add on a text dialog whose annotation has no text element
\* creates exactly one canvas text element, at the annotation's origin,
\* carrying the staged text, text colour and font, and sets created.
C5_TextCommitCreates ==
    (Added /\ is_text /\ snap.shape.text_id = NoneId) =>
        /\ shape.created = TRUE
        /\ Cardinality(DOMAIN canvas.items) =
               Cardinality(DOMAIN snap.canvas.items) + 1
        /\ shape.text_id \in DOMAIN canvas.items \ DOMAIN snap.canvas.items
        /\ canvas.items[shape.text_id].type = "text"
        /\ canvas.items[shape.text_id].x = Coord(snap.shape.x0)
        /\ canvas.items[shape.text_id].y = Coord(snap.shape.y0)
        /\ canvas.items[shape.text_id].text = dlg.shape_text
        /\ canvas.items[shape.text_id].fill = dlg.text_color
        /\ canvas.items[shape.text_id].font = text_font

\* C6: click_add on a text dialog whose annotation already has its text
\* element creates no element and leaves that element's text, colour and
\* font as they were, whatever is staged.
C6_TextRecommitKeepsElement ==
    (Added /\ is_text /\ snap.shape.text_id # NoneId) =>
        /\ DOMAIN canvas.items = DOMAIN snap.canvas.items
        /\ canvas.items[snap.shape.text_id].text =
               snap.canvas.items[snap.shape.text_id].text
        /\ canvas.items[snap.shape.text_id].fill =
               snap.canvas.items[snap.shape.text_id].fill
        /\ canvas.items[snap.shape.text_id].font =
               snap.canvas.items[snap.shape.text_id].font

C6_Witness ==
    /\ Added /\ is_text /\ snap.shape.text_id # NoneId
    /\ dlg.shape_text # canvas.items[shape.text_id].text
    /\ text_font # canvas.items[shape.text_id].font

\* C7: a colour prompt that the user cancels leaves the staged colour it
\* was opened for as it was before the prompt.
C7_CancelledPromptKeepsColor ==
    [][/\ choose_text_color(None) => dlg'.text_color = dlg.text_color
       /\ choose_fill_color(None) => dlg'.fill_color = dlg.fill_color
       /\ choose_border_color(None) => dlg'.border_color = dlg.border_color]_vars

\* C8: make_font returns [family, size] followed by exactly those of
\* "bold", "italic", "underline" whose flag is set, in that order.
C8_MakeFontOrder ==
    text_font # << >> =>
        text_font = <<dlg.font, dlg.font_size>> \o
            SelectSeq(<<"bold", "italic", "underline">>,
                      LAMBDA m : \/ m = "bold" /\ dlg.bold = 1
                                 \/ m = "italic" /\ dlg.italic = 1
                                 \/ m = "underline" /\ dlg.underline = 1)

C8_Witness ==
    /\ dlg.font = "Arial" /\ dlg.font_size = 72
    /\ dlg.bold = 1 /\ dlg.italic = 1 /\ dlg.underline = 1
    /\ text_font = <<"Arial", 72, "bold", "italic", "underline">>

\* C9: the label a shape commit creates is anchored at x = (x0 + x1) / 2,
\* y = y0 + 1.5 * size of the shape's bounding box and the staged size;
\* box (10, 20, 50, 60) with size 10 gives (30, 35).
C9_LabelAnchor ==
    (Added /\ is_shape /\ snap.shape.text_id = NoneId) =>
        LET label == canvas.items[shape.text_id] IN
        /\ 2 * label.x = Coord(bbox[1]) + Coord(bbox[3])
        /\ 2 * (label.y - Coord(bbox[2])) = 3 * Coord(dlg.font_size)
        /\ (bbox = <<10, 20, 50, 60>> /\ dlg.font_size = 10) =>
               label.x = Coord(30) /\ label.y = Coord(35)

C9_Witness ==
    /\ Added /\ is_shape /\ snap.shape.text_id = NoneId
    /\ bbox = <<10, 20, 50, 60>> /\ dlg.font_size = 10
    /\ canvas.items[shape.text_id].x = 60
    /\ canvas.items[shape.text_id].y = 70

\* C10: cancelling a text dialog, created or not and whatever is staged,
\* deletes no element, removes no registry entry and changes no shape_data
\* field.
C10_TextCancelChangesNothing ==
    (Cancelled /\ is_text) =>
        /\ canvas = snap.canvas
        /\ shape = snap.shape

C10_Witness ==
    /\ Cancelled /\ is_text
    /\ snap.shape.created
    /\ StagedDiffers
    /\ DOMAIN canvas.texts # {}

\* the writes of a commit are in place: the annotation is created, its
\* element (shape) or label exists, and shape_data holds the staged values
CommitWritten ==
    /\ shape.created = TRUE
    /\ shape.text_id \in DOMAIN canvas.items
    /\ shape.shape_data.text = dlg.shape_text
    /\ shape.shape_data.font = dlg.font
    /\ shape.shape_data.font_size = dlg.font_size
    /\ shape.shape_data.text_color = dlg.text_color
    /\ shape.shape_data.bold = dlg.bold
    /\ shape.shape_data.italic = dlg.italic
    /\ shape.shape_data.underline = dlg.underline
    /\ is_shape =>
         /\ shape.shape_data.fill_color = dlg.fill_color
         /\ shape.shape_data.border_color = dlg.border_color
         /\ shape.shape_data.border_width = dlg.border_width
         /\ canvas.items[dlg.id].width = dlg.border_width
         /\ canvas.items[dlg.id].dash = ""
         /\ canvas.items[shape.text_id].text = dlg.shape_text

\* C11: every click_add, shape or text, ends with the dialog destroyed;
\* the destroy comes only when the canvas updates and the shape_data writes
\* of the commit are in place and changes neither, and a destroyed dialog
\* changes neither the annotation nor the canvas afterwards.
C11_DestroyAfterWrites ==
    /\ [](dlg.pc = 1 => ENABLED click_add_second)
    /\ [](dlg.pc = 2 => dlg.state = "destroyed" /\ CommitWritten)
    /\ [][/\ (dlg.clicked' = "add" /\ dlg.state # "destroyed"
                 /\ dlg.state' = "destroyed") =>
                (CommitWritten /\ shape' = shape /\ canvas' = canvas)
          /\ dlg.state = "destroyed" => (shape' = shape /\ canvas' = canvas)]_vars

C11_Witness ==
    /\ dlg.pc = 2
    /\ dlg.state = "destroyed"
    /\ snap.shape.created
    /\ shape.shape_data # snap.shape.shape_data

\* the text elements on the canvas
TextItems == {i \in DOMAIN canvas.items : canvas.items[i].type = "text"}

\* C13: over any sequence of sessions on a shape annotation at most one
\* label element exists; the first commit creates it and sets text_id, and
\* every later commit leaves text_id alone, creates nothing and sets that
\* element's text, colour and font to the staged ones.
C13_OneLabelUpdatedInPlace ==
    is_shape =>
        /\ Cardinality(TextItems) <= 1
        /\ shape.text_id # NoneId => TextItems = {shape.text_id}
        /\ (Added /\ snap.shape.text_id = NoneId) =>
               /\ shape.text_id \in DOMAIN canvas.items
               /\ shape.text_id \notin DOMAIN snap.canvas.items
        /\ (Added /\ snap.shape.text_id # NoneId) =>
               /\ shape.text_id = snap.shape.text_id
               /\ DOMAIN canvas.items = DOMAIN snap.canvas.items
               /\ canvas.items[shape.text_id].text = dlg.shape_text
               /\ canvas.items[shape.text_id].fill = dlg.text_color
               /\ canvas.items[shape.text_id].font = text_font

\* C14: whenever a shape annotation is created, the canvas shows what its
\* shape_data holds: the shape element's fill, outline and width are
\* fill_color, border_color and border_width, and the label's text and
\* colour are text and text_color.
C14_RenderingAgrees ==
    (is_shape /\ shape.created) =>
        /\ canvas.items[shape.id].fill = shape.shape_data.fill_color
        /\ canvas.items[shape.id].outline = shape.shape_data.border_color
        /\ canvas.items[shape.id].width = shape.shape_data.border_width
        /\ canvas.items[shape.text_id].text = shape.shape_data.text
        /\ canvas.items[shape.text_id].fill = shape.shape_data.text_color

\* C15: once a text annotation has been committed, its id and text_id are
\* the id of the text element that commit created and canvas.texts maps
\* that id, and no other, to the annotation; later commits and cancels
\* leave the binding and the registry as they are.
C15_TextBinding ==
    /\ (is_text /\ shape.created) =>
           /\ shape.id = shape.text_id
           /\ shape.text_id \in DOMAIN canvas.items
           /\ canvas.items[shape.text_id].type = "text"
           /\ DOMAIN canvas.texts = {shape.text_id}
           /\ canvas.texts[shape.text_id] = "shape"
    /\ (is_text /\ Added /\ ~snap.shape.created) =>
           /\ shape.created
           /\ shape.id \notin DOMAIN snap.canvas.items
           /\ DOMAIN canvas.items = DOMAIN snap.canvas.items \cup {shape.id}
    /\ (is_text /\ snap.shape.created) =>
           /\ shape.id = snap.shape.id
           /\ shape.text_id = snap.shape.text_id
           /\ canvas.texts = snap.canvas.texts

C15_Witness ==
    /\ is_text /\ Added
    /\ snap.shape.created
    /\ sessions = 3
    /\ shape.shape_data # snap.shape.shape_data
    /\ canvas.texts[shape.id] = "shape"

\* C16: a text commit, with or without an element already on the canvas,
\* writes text, font, font_size, text_color, bold, italic and underline of
\* shape_data from the staged values and leaves fill_color, border_color
\* and border_width as they were.
C16_TextCommitFields ==
    (is_text /\ Added) =>
        /\ shape.shape_data.text = dlg.shape_text
        /\ shape.shape_data.font = dlg.font
        /\ shape.shape_data.font_size = dlg.font_size
        /\ shape.shape_data.text_color = dlg.text_color
        /\ shape.shape_data.bold = dlg.bold
        /\ shape.shape_data.italic = dlg.italic
        /\ shape.shape_data.underline = dlg.underline
        /\ shape.shape_data.fill_color = snap.shape.shape_data.fill_color
        /\ shape.shape_data.border_color = snap.shape.shape_data.border_color
        /\ shape.shape_data.border_width = snap.shape.shape_data.border_width

C16_Witness ==
    /\ is_text /\ Added
    /\ snap.shape.text_id # NoneId
    /\ shape.shape_data.text_color # snap.shape.shape_data.text_color
    /\ shape.shape_data.text # snap.shape.shape_data.text

\* the phase of reinstall a logged step belongs to
PhaseOf(item) ==
    CASE item.fn = "uninstall" -> 1
      [] item.fn = "reinstall" /\ item.kind # "return" -> 2
      [] item.fn = "install" -> 3
      [] OTHER -> 4

Logged(i, fn) == i \in DOMAIN log /\ log[i].fn = fn

\* C12: reinstall runs uninstall, then the checkout/pull, then install, in
\* that order; no step of install is entered before uninstall has returned
\* and the pull has found tasks.py, and when tasks.py is missing after the
\* pull FileNotFoundError is raised and install is not started.
C12_ReinstallOrder ==
    task_in.task = "reinstall" =>
        /\ \A i, j \in DOMAIN log : i < j => PhaseOf(log[i]) <= PhaseOf(log[j])
        /\ \A i \in DOMAIN log :
               log[i].fn = "install" =>
                   /\ tasks_py = "exists"
                   /\ \E j \in 1..(i - 1) :
                          log[j].fn = "uninstall" /\ log[j].kind = "return"
                   /\ \E j \in 1..(i - 1) :
                          log[j].fn = "reinstall" /\ log[j].kind = "block"
        /\ \A i \in DOMAIN log :
               (log[i].fn = "reinstall" /\ log[i].kind = "block") =>
                   \E j \in 1..(i - 1) :
                       log[j].fn = "uninstall" /\ log[j].kind = "return"
        /\ tasks_py = "missing" =>
               /\ error = "FileNotFoundError"
               /\ \A i \in DOMAIN log : log[i].fn # "install"

C12_Witness ==
    /\ task_in.task = "reinstall"
    /\ pc.at = "done"
    /\ error = ""
    /\ tasks_py = "exists"
    /\ \E i \in DOMAIN log : log[i].fn = "install" /\ log[i].line = 446
    /\ \E i \in DOMAIN log : log[i].fn = "uninstall" /\ log[i].line = 562

\* the spinner threads that have not ended
Alive == {t \in DOMAIN threads : threads[t].alive}

\* C17: with verbose = false every with p.start(msg) block whose body
\* completes goes on to stop(), which clears running and joins the spinner
\* thread: the spinner loop ends, thread is None again and the main thread
\* goes on; at most one spinner thread is alive at any time, none between
\* two blocks; with verbose = true no spinner thread is ever started.
C17_SpinnerStopped ==
    /\ [](Cardinality(Alive) <= 1)
    /\ [](task_in.verbose => threads = << >>)
    /\ []((pc.at = "enter" /\ progs # << >>) =>
            (Alive = {} /\ progs[p].thread = NoThread /\ ~progs[p].running))
    /\ []((pc.at = "body" /\ ~task_in.verbose) =>
            (Alive = {progs[p].thread} /\ progs[p].running))
    /\ (pc.at = "stop" /\ ~task_in.verbose) ~>
            (pc.at \notin {"stop", "join"} /\ Alive = {} /\ progs # << >>
                /\ progs[p].thread = NoThread /\ ~progs[p].running)

C17_Witness ==
    /\ task_in.task = "install"
    /\ ~task_in.verbose
    /\ pc.at = "done"
    /\ Len(threads) = 10
    /\ Alive = {}
    /\ cycles = 3

====
